---- MODULE Spec2Model ----
(***************************************************************************)
(* Model of the two RunPod request handlers of backend/:                   *)
(*   runpod-handler.py  (lazy model load, prompt templating, generation)   *)
(*   runpod-simple.py   (echo variant)                                     *)
(*                                                                         *)
(* Python values are tagged records [t |-> type name, v |-> payload].      *)
(* A str is a sequence of lexemes: a lexeme is a word, a template marker   *)
(* such as "<|end|>", or one whitespace character (" " or "\n").           *)
(* A dict's payload is a function from its keys to tagged values, so a     *)
(* missing key is a key outside the DOMAIN.                                *)
(* The third-party calls (AutoTokenizer.from_pretrained,                   *)
(* AutoModelForCausalLM.from_pretrained, tokenizer(), model.generate,      *)
(* tokenizer.decode) are nondeterministic: each either returns a value     *)
(* from a bounded set or raises an exception with one of LibErrors.        *)
(***************************************************************************)
EXTENDS Integers, Sequences, FiniteSets, TLC

\* ------------------------------------------------------------------ bounds
MaxMessages == 2
MaxRequests == 2
MaxPromptTokens == 2
MaxNewTokens == 2

\* ------------------------------------------------------- Python data model
PyNone == [t |-> "NoneType"]
PyStr(s) == [t |-> "str", v |-> s]
PyInt(n) == [t |-> "int", v |-> n]
PyFloat(d) == [t |-> "float", v |-> d]
PyList(s) == [t |-> "list", v |-> s]
PyDict(f) == [t |-> "dict", v |-> f]

\* the {} literal
EmptyDict == PyDict([k \in {} |-> PyNone])
\* the [] literal
EmptyList == PyList(<<>>)
\* the "" literal
EmptyStr == PyStr(<<>>)

\* dict.get(key, default) on a value known to be a dict
DictGet(d, key, default) ==
  IF key \in DOMAIN d.v THEN d.v[key] ELSE default

\* x.get / x.split on a value that has no such attribute
AttributeError(x, attr) ==
  "'" \o x.t \o "' object has no attribute '" \o attr \o "'"

\* mutation of Truthy: a list counts as true even when empty
Truthy_ListAlways(x) ==
  CASE x.t = "NoneType" -> FALSE
    [] x.t = "int" -> x.v # 0
    [] x.t = "float" -> x.v # "0.0"
    [] x.t = "str" -> Len(x.v) > 0
    [] x.t = "list" -> TRUE
    [] x.t = "dict" -> DOMAIN x.v # {}

\* bool(x), as used by "if not messages"
Truthy(x) ==
  CASE x.t = "NoneType" -> FALSE
    [] x.t = "int" -> x.v # 0
    [] x.t = "float" -> x.v # "0.0"
    [] x.t = "str" -> Len(x.v) > 0
    [] x.t = "list" -> Len(x.v) > 0
    [] x.t = "dict" -> DOMAIN x.v # {}

\* str(x) as an f-string placeholder renders it
Format(x) ==
  CASE x.t = "str" -> x.v
    [] x.t = "NoneType" -> <<"None">>
    [] x.t = "int" -> <<ToString(x.v)>>
    [] x.t = "float" -> <<x.v>>
    [] OTHER -> <<"<" \o x.t \o ">">>

Whitespace == {" ", "\n"}

\* len(s.split()): the number of maximal runs of non-whitespace lexemes
RECURSIVE SplitCount(_)
SplitCount(s) ==
  IF s = <<>> THEN 0
  ELSE IF Head(s) \in Whitespace THEN SplitCount(Tail(s))
  ELSE IF Len(s) = 1 \/ s[2] \in Whitespace THEN 1 + SplitCount(Tail(s))
  ELSE SplitCount(Tail(s))

\* s.split(sep)[0]: the part of s before the first occurrence of sep
RECURSIVE SplitFirst(_, _)
SplitFirst(s, sep) ==
  IF s = <<>> \/ Head(s) = sep THEN <<>>
  ELSE <<Head(s)>> \o SplitFirst(Tail(s), sep)

RECURSIVE LStrip(_)
LStrip(s) ==
  IF s # <<>> /\ Head(s) \in Whitespace THEN LStrip(Tail(s)) ELSE s

RECURSIVE RStrip(_)
RStrip(s) ==
  IF s # <<>> /\ s[Len(s)] \in Whitespace
  THEN RStrip(SubSeq(s, 1, Len(s) - 1)) ELSE s

\* s.strip()
Strip(s) == RStrip(LStrip(s))

\* sep in s
Contains(s, sep) == \E i \in 1..Len(s) : s[i] = sep

\* s.count(sep)
Count(s, sep) == Cardinality({i \in 1..Len(s) : s[i] = sep})

\* ------------------------------------------------ results of a computation
\* a Python expression either yields a value or raises an exception whose
\* str() is msg
Return(x) == [ok |-> TRUE, val |-> x]
Raise(msg) == [ok |-> FALSE, exc |-> msg]

\* values standing for the wall-clock differences time.time() - start
Elapsed == "seconds"

\* ------------------------------------------ runpod-handler.format_messages
\* mutation of Segment: a message with an unrecognised role is not skipped
Segment_AnyRole(role, content) ==
  IF role = PyStr(<<"system">>)
  THEN <<"<|system|>", "\n">> \o Format(content) \o <<"<|end|>", "\n">>
  ELSE IF role = PyStr(<<"assistant">>)
  THEN <<"<|assistant|>", "\n">> \o Format(content) \o <<"<|end|>", "\n">>
  ELSE <<"<|user|>", "\n">> \o Format(content) \o <<"<|end|>", "\n">>

\* the text one loop iteration appends to prompt
Segment(role, content) ==
  IF role = PyStr(<<"system">>)
  THEN <<"<|system|>", "\n">> \o Format(content) \o <<"<|end|>", "\n">>
  ELSE IF role = PyStr(<<"user">>)
  THEN <<"<|user|>", "\n">> \o Format(content) \o <<"<|end|>", "\n">>
  ELSE IF role = PyStr(<<"assistant">>)
  THEN <<"<|assistant|>", "\n">> \o Format(content) \o <<"<|end|>", "\n">>
  ELSE <<>>

\* the for loop over the remaining messages, prompt being the text so far
RECURSIVE FormatLoop(_, _)
FormatLoop(prompt, msgs) ==
  IF msgs = <<>> THEN Return(prompt \o <<"<|assistant|>", "\n">>)
  ELSE LET message == Head(msgs) IN
    IF message.t # "dict" THEN Raise(AttributeError(message, "get"))
    ELSE LET role == DictGet(message, "role", EmptyStr)
             content == DictGet(message, "content", EmptyStr)
         IN FormatLoop(prompt \o Segment(role, content), Tail(msgs))

\* format_messages(messages), messages a list
format_messages(messages) == FormatLoop(<<>>, messages.v)

\* ------------------------------------------------- runpod-simple.handler
SimpleResponse(last_message) ==
  LET response == <<"Echo:", " ">> \o Format(last_message) IN
  IF last_message.t # "str" THEN Raise(AttributeError(last_message, "split"))
  ELSE Return(
    [choices |-> <<[message |-> [role |-> "assistant", content |-> response]]>>,
     usage |-> [prompt_tokens |-> SplitCount(last_message.v),
                completion_tokens |-> SplitCount(response),
                total_tokens |-> SplitCount(last_message.v) + SplitCount(response)]])

\* the body of the try block: the mapping returned, or the exception raised
SimpleTry(j) ==
  LET input_data == DictGet(j, "input", EmptyDict) IN
  IF input_data.t # "dict" THEN Raise(AttributeError(input_data, "get"))
  ELSE LET messages == DictGet(input_data, "messages", EmptyList) IN
    IF ~Truthy(messages) THEN Return([error |-> "No messages provided"])
    ELSE IF Len(messages.v) = 0 THEN Raise("list index out of range")
    ELSE LET last == messages.v[Len(messages.v)] IN
      IF last.t # "dict" THEN Raise(AttributeError(last, "get"))
      ELSE SimpleResponse(DictGet(last, "content", EmptyStr))

\* handler(job) of runpod-simple.py, with its except clause
SimpleHandlerResult(j) ==
  LET r == SimpleTry(j) IN
  IF r.ok THEN r.val ELSE [error |-> r.exc]

\* --------------------------------------------------------- the job inputs
\* a dict holding exactly the keys whose option is present
Msg(ro, co) ==
  PyDict([k \in (IF ro # <<>> THEN {"role"} ELSE {}) \cup
                (IF co # <<>> THEN {"content"} ELSE {})
          |-> IF k = "role" THEN ro[1] ELSE co[1]])

HiThere == PyStr(<<"hi", " ", "there">>)

\* the kinds of list element: well-formed turns of a recognised and of an
\* unrecognised role, a content holding the end marker, a missing content,
\* a missing role with a null content, and an element that is no mapping
Messages ==
  {Msg(<<PyStr(<<"user">>)>>, <<HiThere>>),
   Msg(<<PyStr(<<"assistant">>)>>, <<PyStr(<<"<|end|>">>)>>),
   Msg(<<PyStr(<<"system">>)>>, <<>>),
   Msg(<<PyStr(<<"tool">>)>>, <<HiThere>>),
   Msg(<<>>, <<PyNone>>),
   PyStr(<<"oops">>)}

MsgLists == UNION {[1..n -> Messages] : n \in 0..MaxMessages}

MaxTokensOpts == {<<>>, <<PyInt(100)>>}
TemperatureOpts == {<<>>, <<PyFloat("0.2")>>}
TopPOpts == {<<>>, <<PyFloat("0.5")>>}

InputOf(mo, mt, te, tp) ==
  PyDict([k \in (IF mo # <<>> THEN {"messages"} ELSE {}) \cup
                (IF mt # <<>> THEN {"max_tokens"} ELSE {}) \cup
                (IF te # <<>> THEN {"temperature"} ELSE {}) \cup
                (IF tp # <<>> THEN {"top_p"} ELSE {})
          |-> CASE k = "messages" -> mo[1]
                [] k = "max_tokens" -> mt[1]
                [] k = "temperature" -> te[1]
                [] k = "top_p" -> tp[1]])

JobOf(io) ==
  PyDict([k \in (IF io # <<>> THEN {"input"} ELSE {}) |-> io[1]])

UserHi == Msg(<<PyStr(<<"user">>)>>, <<HiThere>>)

Jobs ==
  {JobOf(<<InputOf(<<PyList(ml)>>, <<>>, <<>>, <<>>)>>) : ml \in MsgLists}
  \cup {JobOf(<<InputOf(mo, mt, te, tp)>>) :
          mo \in {<<>>, <<PyList(<<UserHi>>)>>}, mt \in MaxTokensOpts,
          te \in TemperatureOpts, tp \in TopPOpts}
  \cup {JobOf(<<InputOf(<<PyNone>>, <<>>, <<>>, <<>>)>>),
        JobOf(<<PyNone>>), JobOf(<<>>)}

\* --------------------------------------------------- third-party outcomes
\* str(e) of the exceptions the libraries raise; they derive from Exception,
\* the class both except clauses name
LibErrors == {"CUDA out of memory", "Connection error"}
\* what tokenizer.decode returns
DecodedTexts == {<<"Bonjour">>, <<" ", "Bonjour", "<|end|>", "x", "\n">>}

\* ------------------------------------------------------------------ state
VARIABLES
  model, tokenizer, model_loaded,  \* globals of runpod-handler.py
  pc,                              \* position of the running request
  which,                           \* handler serving it: "model" or "simple"
  job,                             \* its argument
  messages, max_tokens, temperature, top_p,  \* locals of handler
  prompt, prompt_tokens, outputs_len,
  result,                          \* the mapping handler returned
  raised,                          \* <<str(e)>> of the exception in flight
  calls,                           \* calls made by the running request
  gen_args,                        \* <<keyword arguments given to generate>>
  loaded_at_start,                 \* model_loaded when the request arrived
  loads,                           \* successful loads since process start
  nreq                             \* requests received

globals == <<model, tokenizer, model_loaded>>
locals == <<messages, max_tokens, temperature, top_p, prompt, prompt_tokens, outputs_len>>
vars == <<model, tokenizer, model_loaded, pc, which, job, messages, max_tokens,
          temperature, top_p, prompt, prompt_tokens, outputs_len, result,
          raised, calls, gen_args, loaded_at_start, loads, nreq>>

NoResult == [pending |-> TRUE]
NoJob == EmptyDict

UnsetLocals ==
  /\ messages = PyNone /\ max_tokens = PyNone /\ temperature = PyNone
  /\ top_p = PyNone /\ prompt = <<>> /\ prompt_tokens = 0 /\ outputs_len = 0

Init ==
  /\ model = "None" /\ tokenizer = "None" /\ model_loaded = FALSE
  /\ pc = "idle" /\ which = "model" /\ job = NoJob
  /\ UnsetLocals
  /\ result = NoResult /\ raised = <<>> /\ calls = <<>> /\ gen_args = <<>>
  /\ loaded_at_start = FALSE /\ loads = 0 /\ nreq = 0

\* a new call frame: no local is bound yet
FreshLocals ==
  /\ messages' = PyNone /\ max_tokens' = PyNone /\ temperature' = PyNone
  /\ top_p' = PyNone /\ prompt' = <<>> /\ prompt_tokens' = 0 /\ outputs_len' = 0

\* ------------------------------------------------- runpod-simple.handler
SimpleHandler(j) ==
  /\ pc \in {"idle", "done"} /\ nreq < MaxRequests
  /\ which' = "simple" /\ job' = j /\ nreq' = nreq + 1
  /\ result' = SimpleHandlerResult(j)
  /\ raised' = IF SimpleTry(j).ok THEN <<>> ELSE <<SimpleTry(j).exc>>
  /\ calls' = <<>> /\ gen_args' = <<>> /\ pc' = "done"
  /\ loaded_at_start' = model_loaded
  /\ FreshLocals
  /\ UNCHANGED <<globals, loads>>

\* ------------------------------------------------ runpod-handler.handler
\* mutation of HandlerStart: the input is read before load_model is called
HandlerStart_ValidateFirst(j) ==
  /\ pc \in {"idle", "done"} /\ nreq < MaxRequests
  /\ which' = "model" /\ job' = j /\ nreq' = nreq + 1
  /\ result' = NoResult /\ raised' = <<>> /\ calls' = <<>> /\ gen_args' = <<>>
  /\ loaded_at_start' = model_loaded
  /\ FreshLocals
  /\ pc' = "read_input"
  /\ UNCHANGED <<globals, loads>>

\* handler(job) is entered; the try block starts with load_model()
HandlerStart(j) ==
  /\ pc \in {"idle", "done"} /\ nreq < MaxRequests
  /\ which' = "model" /\ job' = j /\ nreq' = nreq + 1
  /\ result' = NoResult /\ raised' = <<>> /\ calls' = <<>> /\ gen_args' = <<>>
  /\ loaded_at_start' = model_loaded
  /\ FreshLocals
  /\ pc' = "load_model"
  /\ UNCHANGED <<globals, loads>>

\* mutation of LoadModelEnter: the model_loaded guard is missing
LoadModelEnter_NoGuard ==
  /\ pc = "load_model"
  /\ calls' = Append(calls, "load_model")
  /\ pc' = "load_tokenizer"
  /\ UNCHANGED <<globals, locals, which, job, result, raised, gen_args,
                 loaded_at_start, loads, nreq>>

\* load_model(): the memoization guard
LoadModelEnter ==
  /\ pc = "load_model"
  /\ calls' = Append(calls, "load_model")
  /\ pc' = IF model_loaded THEN "read_input" ELSE "load_tokenizer"
  /\ UNCHANGED <<globals, locals, which, job, result, raised, gen_args,
                 loaded_at_start, loads, nreq>>

\* mutation of LoadTokenizer: model_loaded is set as soon as the tokenizer is
LoadTokenizer_FlagEarly ==
  /\ pc = "load_tokenizer"
  /\ calls' = Append(calls, "AutoTokenizer.from_pretrained")
  /\ \/ /\ tokenizer' = "tokenizer" /\ model_loaded' = TRUE
        /\ pc' = "load_weights"
        /\ UNCHANGED raised
     \/ \E e \in LibErrors :
        /\ raised' = <<e>> /\ pc' = "load_except"
        /\ UNCHANGED <<tokenizer, model_loaded>>
  /\ UNCHANGED <<model, locals, which, job, result, gen_args,
                 loaded_at_start, loads, nreq>>

\* tokenizer = AutoTokenizer.from_pretrained(...)
LoadTokenizer ==
  /\ pc = "load_tokenizer"
  /\ calls' = Append(calls, "AutoTokenizer.from_pretrained")
  /\ \/ /\ tokenizer' = "tokenizer" /\ pc' = "load_weights"
        /\ UNCHANGED raised
     \/ \E e \in LibErrors :
        /\ raised' = <<e>> /\ pc' = "load_except"
        /\ UNCHANGED tokenizer
  /\ UNCHANGED <<model, model_loaded, locals, which, job, result, gen_args,
                 loaded_at_start, loads, nreq>>

\* model = AutoModelForCausalLM.from_pretrained(...); model_loaded = True
LoadWeights ==
  /\ pc = "load_weights"
  /\ calls' = Append(calls, "AutoModelForCausalLM.from_pretrained")
  /\ \/ /\ model' = "model" /\ model_loaded' = TRUE /\ loads' = loads + 1
        /\ pc' = "read_input"
        /\ UNCHANGED raised
     \/ \E e \in LibErrors :
        /\ raised' = <<e>> /\ pc' = "load_except"
        /\ UNCHANGED <<model, model_loaded, loads>>
  /\ UNCHANGED <<tokenizer, locals, which, job, result, gen_args,
                 loaded_at_start, nreq>>

\* mutation of LoadModelExcept: the load is tried a second time before raising
LoadModelExcept_Retry ==
  /\ pc = "load_except"
  /\ IF Count(calls, "AutoTokenizer.from_pretrained") < 2
     THEN pc' = "load_tokenizer" /\ raised' = <<>>
     ELSE pc' = "except" /\ raised' = raised
  /\ UNCHANGED <<globals, locals, which, job, result, calls, gen_args,
                 loaded_at_start, loads, nreq>>

\* load_model's except clause: print, then raise e
LoadModelExcept ==
  /\ pc = "load_except"
  /\ pc' = "except"
  /\ UNCHANGED <<globals, locals, which, job, result, raised, calls, gen_args,
                 loaded_at_start, loads, nreq>>

\* the defaults of the optional generation parameters
DefaultMaxTokens == 2048
DefaultTemperature == "0.7"
DefaultTopP == "0.9"

\* input_data = job.get("input", {}) ... if not messages: return error
ReadInput ==
  /\ pc = "read_input"
  /\ LET input_data == DictGet(job, "input", EmptyDict) IN
     IF input_data.t # "dict"
     THEN /\ raised' = <<AttributeError(input_data, "get")>>
          /\ pc' = "except"
          /\ UNCHANGED <<messages, max_tokens, temperature, top_p, result>>
     ELSE /\ messages' = DictGet(input_data, "messages", EmptyList)
          /\ max_tokens' = DictGet(input_data, "max_tokens", PyInt(DefaultMaxTokens))
          /\ temperature' = DictGet(input_data, "temperature", PyFloat(DefaultTemperature))
          /\ top_p' = DictGet(input_data, "top_p", PyFloat(DefaultTopP))
          /\ IF ~Truthy(messages')
             THEN result' = [error |-> "No messages provided"] /\ pc' = "done"
             ELSE result' = result /\ pc' = "format"
          /\ UNCHANGED raised
  /\ UNCHANGED <<globals, prompt, prompt_tokens, outputs_len, which, job,
                 calls, gen_args, loaded_at_start, loads, nreq>>

\* prompt = format_messages(messages)
FormatPrompt ==
  /\ pc = "format"
  /\ calls' = Append(calls, "format_messages")
  /\ LET r == format_messages(messages) IN
     IF r.ok
     THEN prompt' = r.val /\ pc' = "tokenize" /\ UNCHANGED raised
     ELSE raised' = <<r.exc>> /\ pc' = "except" /\ UNCHANGED prompt
  /\ UNCHANGED <<globals, messages, max_tokens, temperature, top_p,
                 prompt_tokens, outputs_len, which, job, result, gen_args,
                 loaded_at_start, loads, nreq>>

\* inputs = tokenizer(prompt, truncation=True, ...).to(model.device)
Tokenize ==
  /\ pc = "tokenize"
  /\ calls' = Append(calls, "tokenizer")
  /\ \/ \E n \in 1..MaxPromptTokens :
        /\ prompt_tokens' = n /\ pc' = "generate"
        /\ UNCHANGED raised
     \/ \E e \in LibErrors :
        /\ raised' = <<e>> /\ pc' = "except"
        /\ UNCHANGED prompt_tokens
  /\ UNCHANGED <<globals, messages, max_tokens, temperature, top_p, prompt,
                 outputs_len, which, job, result, gen_args, loaded_at_start,
                 loads, nreq>>

\* mutation of GenerateArgs: temperature and top_p change places
GenerateArgs_Swapped ==
  [max_new_tokens |-> max_tokens, temperature |-> top_p, top_p |-> temperature]

\* the keyword arguments of model.generate that come from the job
GenerateArgs ==
  [max_new_tokens |-> max_tokens, temperature |-> temperature, top_p |-> top_p]

\* outputs = model.generate(inputs.input_ids, ...): outputs[0] is the prompt
\* followed by the new tokens
Generate ==
  /\ pc = "generate"
  /\ calls' = Append(calls, "model.generate")
  /\ gen_args' = <<GenerateArgs>>
  /\ \/ \E k \in 0..MaxNewTokens :
        /\ outputs_len' = prompt_tokens + k /\ pc' = "decode"
        /\ UNCHANGED raised
     \/ \E e \in LibErrors :
        /\ raised' = <<e>> /\ pc' = "except"
        /\ UNCHANGED outputs_len
  /\ UNCHANGED <<globals, messages, max_tokens, temperature, top_p, prompt,
                 prompt_tokens, which, job, result, loaded_at_start, loads, nreq>>

\* len(seq[start:]) for a sequence of length n
SliceLen(n, start) == IF start >= n THEN 0 ELSE n - start

\* mutation of Usage: the completion is left out of the total
Usage_PromptOnly(p, c) ==
  [prompt_tokens |-> p, completion_tokens |-> c, total_tokens |-> p]

\* the "usage" mapping of the model handler
Usage(p, c) ==
  [prompt_tokens |-> p, completion_tokens |-> c, total_tokens |-> p + c]

\* response cleaned: cut at the first "<|end|>"
Clean(response) ==
  IF Contains(response, "<|end|>") THEN SplitFirst(response, "<|end|>")
  ELSE response

\* mutation of SuccessResult: the choice is never put in the list
SuccessResult_NoChoice(response, p, c) ==
  [choices |-> <<>>,
   usage |-> Usage(p, c),
   model |-> "deepseek-r1-distill-llama-8b",
   execution_time |-> Elapsed,
   generation_time |-> Elapsed]

\* the mapping returned at the end of the try block
SuccessResult(response, p, c) ==
  [choices |-> <<[message |-> [role |-> "assistant", content |-> Strip(Clean(response))],
                  finish_reason |-> "stop"]>>,
   usage |-> Usage(p, c),
   model |-> "deepseek-r1-distill-llama-8b",
   execution_time |-> Elapsed,
   generation_time |-> Elapsed]

\* response = tokenizer.decode(outputs[0][n:]) ... return {...}
DecodeAndReturn ==
  /\ pc = "decode"
  /\ calls' = Append(calls, "tokenizer.decode")
  /\ \/ \E response \in DecodedTexts :
        /\ result' = SuccessResult(response, prompt_tokens,
                                    SliceLen(outputs_len, prompt_tokens))
        /\ pc' = "done"
        /\ UNCHANGED raised
     \/ \E e \in LibErrors :
        /\ raised' = <<e>> /\ pc' = "except"
        /\ UNCHANGED result
  /\ UNCHANGED <<globals, locals, which, job, gen_args, loaded_at_start,
                 loads, nreq>>

\* mutation of ErrorResult: a fixed text replaces str(e)
ErrorResult_Generic(e) == [error |-> "Internal error", execution_time |-> Elapsed]

\* the mapping returned by handler's except clause
ErrorResult(e) == [error |-> e, execution_time |-> Elapsed]

\* except Exception as e: return {"error": str(e), ...}
HandlerExcept ==
  /\ pc = "except"
  /\ result' = ErrorResult(raised[1])
  /\ pc' = "done"
  /\ UNCHANGED <<globals, locals, which, job, raised, calls, gen_args,
                 loaded_at_start, loads, nreq>>

Next ==
  \/ \E j \in Jobs : SimpleHandler(j)
  \/ \E j \in Jobs : HandlerStart(j)
  \/ LoadModelEnter
  \/ LoadTokenizer
  \/ LoadWeights
  \/ LoadModelExcept
  \/ ReadInput
  \/ FormatPrompt
  \/ Tokenize
  \/ Generate
  \/ DecodeAndReturn
  \/ HandlerExcept

Spec == Init /\ [][Next]_vars

TypeOK ==
  /\ pc \in {"idle", "load_model", "load_tokenizer", "load_weights",
             "load_except", "read_input", "format", "tokenize", "generate",
             "decode", "except", "done"}
  /\ model_loaded \in BOOLEAN
  /\ nreq \in 0..MaxRequests

\* ============================================================ properties
Range(s) == {s[i] : i \in 1..Len(s)}
Done == pc = "done"
HasError == "error" \in DOMAIN result
HasChoices == "choices" \in DOMAIN result

\* the job's input is a mapping without "messages" or with an empty list
NoMessages(j) ==
  LET i == DictGet(j, "input", EmptyDict) IN
  /\ i.t = "dict"
  /\ \/ "messages" \notin DOMAIN i.v
     \/ i.v["messages"] = EmptyList

\* the job's input is a mapping whose messages are a non-empty list of
\* {role, content} mappings of strings
WellFormed(j) ==
  /\ "input" \in DOMAIN j.v
  /\ j.v["input"].t = "dict"
  /\ "messages" \in DOMAIN j.v["input"].v
  /\ LET m == j.v["input"].v["messages"] IN
     /\ m.t = "list" /\ Len(m.v) > 0
     /\ \A k \in 1..Len(m.v) :
          /\ m.v[k].t = "dict"
          /\ DOMAIN m.v[k].v = {"role", "content"}
          /\ m.v[k].v["role"].t = "str"
          /\ m.v[k].v["content"].t = "str"

\* the chat-completion shape: one assistant choice and three token counts
ChatShape(r) ==
  /\ "choices" \in DOMAIN r /\ "usage" \in DOMAIN r
  /\ Len(r.choices) = 1
  /\ r.choices[1].message.role = "assistant"
  /\ r.choices[1].message.content \in Seq(STRING)
  /\ {"prompt_tokens", "completion_tokens", "total_tokens"} \subseteq DOMAIN r.usage
  /\ r.usage.prompt_tokens \in Nat
  /\ r.usage.completion_tokens \in Nat
  /\ r.usage.total_tokens \in Nat

\* C1: in both handlers an exception raised anywhere in the try block is
\* always in the hands of an except clause, never of the caller, and the
\* mapping returned carries str(e) in its "error" field.
C1_ExceptionsBecomeErrorField ==
  raised # <<>> =>
    /\ pc \in {"load_except", "except", "done"}
    /\ Done => HasError /\ result.error = raised[1]

C1_Witness ==
  /\ Done /\ which = "model" /\ raised # <<>>
  /\ calls[Len(calls)] = "model.generate"
  /\ HasError /\ result.error \in LibErrors

\* C2: a job without messages gets an "error" and no "choices"; the model
\* handler never calls the tokenizer or generate for it.
C2_NoMessagesIsError ==
  NoMessages(job) /\ nreq > 0 =>
    /\ Done => HasError /\ ~HasChoices
    /\ which = "model" => Range(calls) \cap {"tokenizer", "model.generate"} = {}

C2_Witness ==
  /\ Done /\ which = "model" /\ NoMessages(job) /\ nreq > 0
  /\ HasError /\ result.error = "No messages provided"

\* C3 as stated: every well-formed job gets a response without "error" and
\* with the chat-completion shape.
C3_Original ==
  Done /\ WellFormed(job) => ~HasError /\ ChatShape(result)

\* C3 as amended: a well-formed job gets the chat-completion shape without
\* "error" unless a library call of the model handler raised, and then it
\* gets that exception's message as "error"; the echo handler never fails on it.
C3_WellFormedShape ==
  Done /\ WellFormed(job) =>
    IF raised = <<>>
    THEN ~HasError /\ ChatShape(result)
    ELSE /\ which = "model" /\ raised[1] \in LibErrors
         /\ HasError /\ result.error = raised[1] /\ ~HasChoices

C3_Witness ==
  /\ Done /\ which = "model" /\ WellFormed(job) /\ raised = <<>>
  /\ ChatShape(result) /\ result.choices[1].message.content = <<"Bonjour">>

\* C4: within one request of the model handler load_model, each loader and
\* generate are called at most once; once an exception is raised no further
\* call is made and the request ends with an error response.
C4_NoRetry ==
  /\ [](which = "model" =>
         /\ \A c \in {"load_model", "AutoTokenizer.from_pretrained",
                      "AutoModelForCausalLM.from_pretrained", "model.generate"} :
              Count(calls, c) <= 1
         /\ (Done /\ raised # <<>>) => (HasError /\ ~HasChoices))
  /\ [][(raised # <<>> /\ ~Done) => (calls' = calls /\ raised' = raised)]_vars

C4_Witness ==
  /\ Done /\ which = "model" /\ raised # <<>> /\ HasError
  /\ calls = <<"load_model", "AutoTokenizer.from_pretrained",
               "AutoModelForCausalLM.from_pretrained">>

\* C5: model_loaded never goes back to false, a request that arrives with
\* the model loaded calls no loader, and the load succeeds at most once.
C5_Memoized ==
  /\ [](loads <= 1)
  /\ []((which = "model" /\ loaded_at_start) =>
          Range(calls) \cap {"AutoTokenizer.from_pretrained",
                             "AutoModelForCausalLM.from_pretrained"} = {})
  /\ [][model_loaded => model_loaded']_vars

C5_Witness ==
  /\ Done /\ which = "model" /\ loaded_at_start /\ nreq = 2
  /\ "load_model" \in Range(calls) /\ loads = 1

\* C6: model_loaded implies tokenizer and model are set; a failed load
\* leaves model_loaded false and the next request loads again from the
\* tokenizer step.
C6_LoadedImpliesSet ==
  /\ model_loaded => (tokenizer # "None" /\ model # "None")
  /\ pc = "load_except" => ~model_loaded
  /\ (which = "model" /\ ~loaded_at_start /\ Len(calls) >= 2) =>
       (calls[1] = "load_model" /\ calls[2] = "AutoTokenizer.from_pretrained")

C6_Witness ==
  /\ which = "model" /\ nreq = 2 /\ ~loaded_at_start /\ pc = "load_weights"
  /\ tokenizer # "None" /\ model = "None" /\ ~model_loaded
  /\ calls = <<"load_model", "AutoTokenizer.from_pretrained">>

\* C7: the model handler calls load_model before it reads the input; a
\* request that finishes with the model still not loaded, empty messages
\* included, answers with the load error, not "No messages provided".
C7_LoadBeforeValidation ==
  which = "model" =>
    /\ pc \in {"read_input", "format", "tokenize", "generate", "decode"} =>
         (calls # <<>> /\ calls[1] = "load_model" /\ model_loaded)
    /\ (~loaded_at_start /\ pc \notin {"idle", "load_model", "load_tokenizer"}) =>
         "AutoTokenizer.from_pretrained" \in Range(calls)
    /\ (Done /\ ~model_loaded) =>
         /\ HasError /\ raised # <<>> /\ result.error = raised[1]
         /\ result.error \in LibErrors

C7_Witness ==
  /\ Done /\ which = "model" /\ NoMessages(job) /\ nreq > 0 /\ ~model_loaded
  /\ HasError /\ result.error \in LibErrors

\* C8: a successful response has total_tokens = prompt_tokens +
\* completion_tokens, all three natural numbers.
C8_UsageAddsUp ==
  Done /\ HasChoices =>
    /\ result.usage.prompt_tokens \in Nat
    /\ result.usage.completion_tokens \in Nat
    /\ result.usage.total_tokens \in Nat
    /\ result.usage.total_tokens =
         result.usage.prompt_tokens + result.usage.completion_tokens

C8_Witness ==
  /\ Done /\ which = "simple" /\ HasChoices
  /\ result.usage.prompt_tokens = 2 /\ result.usage.completion_tokens = 3
  /\ result.usage.total_tokens = 5

\* messages of the list whose role is system, user or assistant
Recognised(m) ==
  /\ m.t = "dict"
  /\ DictGet(m, "role", EmptyStr) \in
       {PyStr(<<"system">>), PyStr(<<"user">>), PyStr(<<"assistant">>)}

\* the prompt was built for the running request
PromptBuilt ==
  which = "model" /\ (pc = "tokenize" \/ "tokenizer" \in Range(calls))

EndsWithAssistant(p) ==
  Len(p) >= 2 /\ SubSeq(p, Len(p) - 1, Len(p)) = <<"<|assistant|>", "\n">>

\* C9 as stated: the prompt ends with "<|assistant|>\n" and holds exactly
\* as many "<|end|>" as there are messages with a recognised role.
C9_Original ==
  PromptBuilt =>
    /\ EndsWithAssistant(prompt)
    /\ Count(prompt, "<|end|>") =
         Cardinality({k \in 1..Len(messages.v) : Recognised(messages.v[k])})

\* occurrences of "<|end|>" inside the contents of the recognised messages
RECURSIVE EndsInContents(_)
EndsInContents(ms) ==
  IF ms = <<>> THEN 0
  ELSE (IF Recognised(Head(ms))
        THEN Count(Format(DictGet(Head(ms), "content", EmptyStr)), "<|end|>")
        ELSE 0) + EndsInContents(Tail(ms))

\* lexemes the recognised messages contribute: two for the role line, the
\* content, two for the end line
RECURSIVE SegmentsLen(_)
SegmentsLen(ms) ==
  IF ms = <<>> THEN 0
  ELSE (IF Recognised(Head(ms))
        THEN 4 + Len(Format(DictGet(Head(ms), "content", EmptyStr)))
        ELSE 0) + SegmentsLen(Tail(ms))

\* C9 as amended: the prompt ends with "<|assistant|>\n", is as long as
\* the segments of the recognised messages plus that suffix, and holds as
\* many "<|end|>" as there are recognised messages plus the "<|end|>" that
\* occur inside their contents.
C9_PromptTemplate ==
  PromptBuilt =>
    /\ EndsWithAssistant(prompt)
    /\ Len(prompt) = SegmentsLen(messages.v) + 2
    /\ Count(prompt, "<|end|>") =
         Cardinality({k \in 1..Len(messages.v) : Recognised(messages.v[k])})
         + EndsInContents(messages.v)

C9_Witness ==
  /\ PromptBuilt /\ Len(messages.v) = 2
  /\ ~Recognised(messages.v[1]) /\ Recognised(messages.v[2])
  /\ prompt = <<"<|assistant|>", "\n", "<|end|>", "<|end|>", "\n", "<|assistant|>", "\n">>

\* C10: generate receives 2048, 0.7 and 0.9 for the parameters the input
\* omits and the input's own value for those it supplies.
C10_GenerationDefaults ==
  gen_args # <<>> =>
    LET i == job.v["input"].v
        a == gen_args[1]
    IN /\ a.max_new_tokens = IF "max_tokens" \in DOMAIN i THEN i["max_tokens"] ELSE PyInt(2048)
       /\ a.temperature = IF "temperature" \in DOMAIN i THEN i["temperature"] ELSE PyFloat("0.7")
       /\ a.top_p = IF "top_p" \in DOMAIN i THEN i["top_p"] ELSE PyFloat("0.9")

C10_Witness ==
  /\ gen_args # <<>>
  /\ DOMAIN job.v["input"].v = {"messages", "temperature"}
  /\ gen_args[1] = [max_new_tokens |-> PyInt(2048), temperature |-> PyFloat("0.2"),
                    top_p |-> PyFloat("0.9")]

====
